---- MODULE Spec2Model ----
(***************************************************************************)
(* Cap3D-Filtering: the caption synchronizer (captions/download_captions.py)*)
(* and the keyword partitioner (filter_dataset.py) as state machines.       *)
(*                                                                          *)
(* Synchronizer: one or two invocations of the script run against one       *)
(* POSIX file system.  A directory maps paths to files (inodes); a file     *)
(* keeps its bytes when it is renamed, and an open handle keeps writing to  *)
(* its file.  Every statement of the script is one step.                    *)
(***************************************************************************)
EXTENDS Integers, Sequences, FiniteSets, TLC

(* ------------------------------ bounds --------------------------------- *)
\* clock ticks the model runs through
MaxNow == 3
\* clock ticks per second: strftime('%S') drops what is below a second
TicksPerSecond == 2
\* invocations of the script, over all processes
MaxRuns == 2
\* empty chunks one response may yield
MaxEmptyChunks == 1

(* --------------------------- program constants ------------------------- *)
CHUNK_SIZE == 1024

\* "Cap3D_automated_Objaverse_full.csv", as the pieces str.replace works on
path_to_captions == <<"Cap3D_automated_Objaverse_full", ".csv">>

\* the processes that may invoke the script
Procs == {1, 2}
\* the contents the remote end serves, as byte sequences
Versions == {<<1, 2>>, <<3>>}

Min(a, b) == IF a < b THEN a ELSE b
Take(s, k) == SubSeq(s, 1, k)
Drop(s, k) == SubSeq(s, k + 1, Len(s))

(* ------------------------------ helpers -------------------------------- *)
\* datetime.now().strftime('%Y-%m-%dT%H:%M:%S'): the time to the second
strftime(t) == t \div TicksPerSecond

\* str.replace(old, new): every occurrence of old (one piece of a path, one
\* character of a text) becomes new
RECURSIVE str_replace(_, _, _)
str_replace(s, old, new) ==
  IF s = <<>> THEN <<>>
  ELSE (IF Head(s) = old THEN new ELSE <<Head(s)>>) \o str_replace(Tail(s), old, new)

\* path_to_captions.replace(".csv", f"-{timestamp}.csv")
ArchivePath(t) == str_replace(path_to_captions, ".csv", <<"-", strftime(t), ".csv">>)

ArchivePaths == {ArchivePath(t) : t \in 0..MaxNow}
Paths == {path_to_captions} \cup ArchivePaths
Inodes == 0..(Cardinality(Paths) + Cardinality(Procs))
NoFile == -1

VARIABLES
  names,            \* the directory: path -> inode, for the paths that exist
  data,             \* inode -> bytes
  now,              \* the clock, in ticks
  remote,           \* the content the source URL serves
  runs,             \* invocations started so far
  pc,               \* per process: the line it is at, or how its run ended
  PERFORM_DOWNLOAD, \* per process: the script's flag
  file_up_to_date,  \* per process: what perform_checksum returned
  rename_path,      \* per process: the archive name of this run
  response,         \* per process: the bytes the response still holds
  file,             \* per process: the inode of the handle open(.., "ab") gave
  startFs,          \* history: path -> bytes when the run started
  oracle,           \* history: the oracle's report in this run
  renamed,          \* history: the archive names this run renamed to
  requests,         \* history: download requests this run issued
  yielded,          \* history: the chunks iter_content yielded in this run
  openedExisting,   \* history: open() found the canonical path existing
  created,          \* history: some download has completed
  stage,            \* partitioner: the step of main() reached
  EXCLUDED_CATEGORIES, \* partitioner: constants["excluded_categories"]
  keywords_dict,    \* partitioner: the category -> keywords mapping on disk
  captions,         \* partitioner: the rows of the caption file, <<id, desc>>
  df,               \* partitioner: the data frame, a sequence of rows
  vocab,            \* partitioner: the vocabulary set
  keywords,         \* partitioner: the keyword set
  included_ids,     \* partitioner: the list written to PATH_TO_INCLUDED_IDS
  excluded_ids      \* partitioner: the list written to PATH_TO_EXCLUDED_IDS

syncVars == <<names, data, now, remote, runs, pc, PERFORM_DOWNLOAD, file_up_to_date,
              rename_path, response, file, startFs, oracle, renamed, requests,
              yielded, openedExisting, created>>
filterVars == <<stage, EXCLUDED_CATEGORIES, keywords_dict, captions, df, vocab,
                keywords, included_ids, excluded_ids>>
vars == <<syncVars, filterVars>>

(* ---------------------------- file system ------------------------------ *)
\* os.path.exists(path)
os_path_exists_wrong(nm, path) == FALSE
os_path_exists(nm, path) == path \in DOMAIN nm

\* os.rename(src, dst) on POSIX: dst names src's file, replacing what it named
os_rename_copy(nm, src, dst) ==
  [q \in DOMAIN nm \cup {dst} |-> IF q = dst THEN nm[src] ELSE nm[q]]
os_rename(nm, src, dst) ==
  [q \in (DOMAIN nm \ {src}) \cup {dst} |-> IF q = dst THEN nm[src] ELSE nm[q]]

\* the bytes under each existing path
FsView == [q \in DOMAIN names |-> data[names[q]]]

\* files that a path names or a handle holds; the others are gone
Live(nm, fds) == {nm[q] : q \in DOMAIN nm} \cup ({fds[p] : p \in Procs} \ {NoFile})
Collect(dt, nm, fds) == [i \in DOMAIN dt \cap Live(nm, fds) |-> dt[i]]
FreshInode == CHOOSE i \in Inodes \ DOMAIN data : \A j \in Inodes \ DOMAIN data : i <= j

(* ---------------------------- the oracle ------------------------------- *)
\* the content digest the descriptor names: distinct contents, distinct digests
sha256(bytes) == <<"sha256", bytes>>

\* utils.checksum.perform_checksum: "True" iff the local file's digest is the one
\* the remote descriptor names, else "False"; "failure" when the descriptor cannot be fetched
\* or read, or the local file cannot be read.
perform_checksum(nm, dt, path, served) ==
  IF path \in DOMAIN nm
    THEN {IF sha256(dt[nm[path]]) = sha256(served) THEN "True" ELSE "False", "failure"}
    ELSE {"failure"}

(* ----------------------------- the script ------------------------------ *)
Terminal == {"idle", "fresh", "downloaded", "failed", "crashed", "aborted"}

\* line 70 with lines 81-82: the flag after the freshness check
PERFORM_DOWNLOAD_always(up_to_date) == TRUE
PERFORM_DOWNLOAD_after(up_to_date) == IF up_to_date THEN FALSE ELSE TRUE

\* lines 91-93: the assertion's condition
assert_stripped(nm) == TRUE
assert_not_exists(nm) == ~os_path_exists(nm, path_to_captions)

\* lines 110-113: what one chunk adds to the file
write_chunk(bytes, chunk) == IF chunk # <<>> THEN bytes \o chunk ELSE bytes

SyncInit ==
  /\ \E present \in BOOLEAN, v \in Versions :
       /\ names = IF present THEN (path_to_captions :> 0) ELSE <<>>
       /\ data = IF present THEN (0 :> v) ELSE <<>>
       /\ created = present
  /\ now = 0
  /\ remote \in Versions
  /\ runs = 0
  /\ pc = [p \in Procs |-> "idle"]
  /\ PERFORM_DOWNLOAD = [p \in Procs |-> TRUE]
  /\ file_up_to_date = [p \in Procs |-> FALSE]
  /\ rename_path = [p \in Procs |-> <<>>]
  /\ response = [p \in Procs |-> <<>>]
  /\ file = [p \in Procs |-> NoFile]
  /\ startFs = [p \in Procs |-> <<>>]
  /\ oracle = [p \in Procs |-> "none"]
  /\ renamed = [p \in Procs |-> {}]
  /\ requests = [p \in Procs |-> 0]
  /\ yielded = [p \in Procs |-> <<>>]
  /\ openedExisting = [p \in Procs |-> FALSE]

\* the synchronizer before any run, nothing on disk
SyncIdle ==
  /\ names = <<>> /\ data = <<>> /\ created = FALSE
  /\ now = 0 /\ remote = <<3>> /\ runs = 0
  /\ pc = [p \in Procs |-> "idle"]
  /\ PERFORM_DOWNLOAD = [p \in Procs |-> TRUE]
  /\ file_up_to_date = [p \in Procs |-> FALSE]
  /\ rename_path = [p \in Procs |-> <<>>]
  /\ response = [p \in Procs |-> <<>>]
  /\ file = [p \in Procs |-> NoFile]
  /\ startFs = [p \in Procs |-> <<>>]
  /\ oracle = [p \in Procs |-> "none"]
  /\ renamed = [p \in Procs |-> {}]
  /\ requests = [p \in Procs |-> 0]
  /\ yielded = [p \in Procs |-> <<>>]
  /\ openedExisting = [p \in Procs |-> FALSE]

\* the partitioner not run
FilterIdle ==
  /\ stage = "idle"
  /\ EXCLUDED_CATEGORIES = {} /\ keywords_dict = <<>> /\ captions = <<>>
  /\ df = <<>> /\ vocab = {} /\ keywords = {}
  /\ included_ids = <<>> /\ excluded_ids = <<>>

Init == SyncInit /\ FilterIdle

\* line 70: a new invocation of the script
StartRun(p) ==
  /\ pc[p] \in Terminal
  /\ runs < MaxRuns
  /\ runs' = runs + 1
  /\ pc' = [pc EXCEPT ![p] = "line72"]
  /\ PERFORM_DOWNLOAD' = [PERFORM_DOWNLOAD EXCEPT ![p] = TRUE]
  /\ file_up_to_date' = [file_up_to_date EXCEPT ![p] = FALSE]
  /\ rename_path' = [rename_path EXCEPT ![p] = <<>>]
  /\ response' = [response EXCEPT ![p] = <<>>]
  /\ startFs' = [startFs EXCEPT ![p] = FsView]
  /\ oracle' = [oracle EXCEPT ![p] = "none"]
  /\ renamed' = [renamed EXCEPT ![p] = {}]
  /\ requests' = [requests EXCEPT ![p] = 0]
  /\ yielded' = [yielded EXCEPT ![p] = <<>>]
  /\ openedExisting' = [openedExisting EXCEPT ![p] = FALSE]
  /\ UNCHANGED <<names, data, now, remote, file, created>>
  /\ UNCHANGED filterVars

\* line 72: if os.path.exists(path_to_captions)
ExistsCheck(p) ==
  /\ pc[p] = "line72"
  /\ pc' = [pc EXCEPT ![p] = IF os_path_exists(names, path_to_captions)
                               THEN "line77" ELSE "line95"]
  /\ UNCHANGED <<names, data, now, remote, runs, PERFORM_DOWNLOAD, file_up_to_date,
                 rename_path, response, file, startFs, oracle, renamed, requests,
                 yielded, openedExisting, created>>
  /\ UNCHANGED filterVars

\* lines 76-85: the freshness check; a failure of the oracle is an exception
\* that nothing in the script catches
Checksum(p) ==
  /\ pc[p] = "line77"
  /\ \E r \in perform_checksum(names, data, path_to_captions, remote) :
       IF r = "failure"
         THEN /\ oracle' = [oracle EXCEPT ![p] = "failure"]
              /\ pc' = [pc EXCEPT ![p] = "crashed"]
              /\ UNCHANGED <<file_up_to_date, PERFORM_DOWNLOAD>>
         ELSE /\ oracle' = [oracle EXCEPT ![p] = r]
              /\ file_up_to_date' = [file_up_to_date EXCEPT ![p] = (r = "True")]
              /\ PERFORM_DOWNLOAD' =
                   [PERFORM_DOWNLOAD EXCEPT ![p] = PERFORM_DOWNLOAD_after(r = "True")]
              /\ pc' = [pc EXCEPT ![p] = IF r = "True" THEN "line95" ELSE "line87"]
  /\ UNCHANGED <<names, data, now, remote, runs, rename_path, response, file,
                 startFs, renamed, requests, yielded, openedExisting, created>>
  /\ UNCHANGED filterVars

\* lines 87-90: the archive name, and os.rename (FileNotFoundError when another
\* invocation has moved the file away meanwhile)
Archive(p) ==
  /\ pc[p] = "line87"
  /\ rename_path' = [rename_path EXCEPT ![p] = ArchivePath(now)]
  /\ IF os_path_exists(names, path_to_captions)
       THEN /\ names' = os_rename(names, path_to_captions, ArchivePath(now))
            /\ data' = Collect(data, names', file)
            /\ renamed' = [renamed EXCEPT ![p] = @ \cup {ArchivePath(now)}]
            /\ pc' = [pc EXCEPT ![p] = "line91"]
       ELSE /\ pc' = [pc EXCEPT ![p] = "crashed"]
            /\ UNCHANGED <<names, data, renamed>>
  /\ UNCHANGED <<now, remote, runs, PERFORM_DOWNLOAD, file_up_to_date, response,
                 file, startFs, oracle, requests, yielded, openedExisting, created>>
  /\ UNCHANGED filterVars

\* lines 91-93: assert not os.path.exists(path_to_captions)
AssertAbsent(p) ==
  /\ pc[p] = "line91"
  /\ pc' = [pc EXCEPT ![p] = IF assert_not_exists(names) THEN "line95" ELSE "aborted"]
  /\ UNCHANGED <<names, data, now, remote, runs, PERFORM_DOWNLOAD, file_up_to_date,
                 rename_path, response, file, startFs, oracle, renamed, requests,
                 yielded, openedExisting, created>>
  /\ UNCHANGED filterVars

\* line 95: if PERFORM_DOWNLOAD
IfPerformDownload(p) ==
  /\ pc[p] = "line95"
  /\ pc' = [pc EXCEPT ![p] = IF PERFORM_DOWNLOAD[p] THEN "line98" ELSE "fresh"]
  /\ UNCHANGED <<names, data, now, remote, runs, PERFORM_DOWNLOAD, file_up_to_date,
                 rename_path, response, file, startFs, oracle, renamed, requests,
                 yielded, openedExisting, created>>
  /\ UNCHANGED filterVars

\* lines 98-102: requests.get and raise_for_status; a RequestException goes to
\* the handler of lines 121-127
Get(p) ==
  /\ pc[p] = "line98"
  /\ requests' = [requests EXCEPT ![p] = @ + 1]
  /\ \E ok \in BOOLEAN :
       IF ok
         THEN /\ response' = [response EXCEPT ![p] = remote]
              /\ pc' = [pc EXCEPT ![p] = "line108"]
         ELSE /\ pc' = [pc EXCEPT ![p] = "failed"]
              /\ UNCHANGED response
  /\ UNCHANGED <<names, data, now, remote, runs, PERFORM_DOWNLOAD, file_up_to_date,
                 rename_path, file, startFs, oracle, renamed, yielded,
                 openedExisting, created>>
  /\ UNCHANGED filterVars

\* line 108: open(path_to_captions, "ab") creates the file when it is absent
Open(p) ==
  /\ pc[p] = "line108"
  /\ IF path_to_captions \in DOMAIN names
       THEN /\ file' = [file EXCEPT ![p] = names[path_to_captions]]
            /\ openedExisting' = [openedExisting EXCEPT ![p] = TRUE]
            /\ UNCHANGED <<names, data>>
       ELSE /\ file' = [file EXCEPT ![p] = FreshInode]
            /\ names' = [q \in DOMAIN names \cup {path_to_captions} |->
                           IF q = path_to_captions THEN FreshInode ELSE names[q]]
            /\ data' = [i \in DOMAIN data \cup {FreshInode} |->
                           IF i = FreshInode THEN <<>> ELSE data[i]]
            /\ UNCHANGED openedExisting
  /\ pc' = [pc EXCEPT ![p] = "line109"]
  /\ UNCHANGED <<now, remote, runs, PERFORM_DOWNLOAD, file_up_to_date, rename_path,
                 response, startFs, oracle, renamed, requests, yielded, created>>
  /\ UNCHANGED filterVars

EmptyYielded(p) == Cardinality({i \in 1..Len(yielded[p]) : yielded[p][i] = <<>>})

\* lines 109-113: iter_content yields a chunk of at most CHUNK_SIZE bytes,
\* which is appended when it is not empty
IterChunk(p) ==
  /\ pc[p] = "line109"
  /\ \E k \in 0..Min(CHUNK_SIZE, Len(response[p])) :
       /\ k = 0 => EmptyYielded(p) < MaxEmptyChunks
       /\ yielded' = [yielded EXCEPT ![p] = Append(@, Take(response[p], k))]
       /\ data' = [data EXCEPT ![file[p]] = write_chunk(@, Take(response[p], k))]
       /\ response' = [response EXCEPT ![p] = Drop(@, k)]
  /\ UNCHANGED <<names, now, remote, runs, pc, PERFORM_DOWNLOAD, file_up_to_date,
                 rename_path, file, startFs, oracle, renamed, requests,
                 openedExisting, created>>
  /\ UNCHANGED filterVars

\* lines 109, 115-119: the response is exhausted, the file is closed
DownloadComplete(p) ==
  /\ pc[p] = "line109"
  /\ response[p] = <<>>
  /\ pc' = [pc EXCEPT ![p] = "downloaded"]
  /\ file' = [file EXCEPT ![p] = NoFile]
  /\ data' = Collect(data, names, file')
  /\ created' = TRUE
  /\ UNCHANGED <<names, now, remote, runs, PERFORM_DOWNLOAD, file_up_to_date,
                 rename_path, response, startFs, oracle, renamed, requests, yielded,
                 openedExisting>>
  /\ UNCHANGED filterVars

\* lines 121-127: the transfer raises a RequestException; the bytes written stay
StreamError(p) ==
  /\ pc[p] = "line109"
  /\ pc' = [pc EXCEPT ![p] = "failed"]
  /\ file' = [file EXCEPT ![p] = NoFile]
  /\ data' = Collect(data, names, file')
  /\ UNCHANGED <<names, now, remote, runs, PERFORM_DOWNLOAD, file_up_to_date,
                 rename_path, response, startFs, oracle, renamed, requests, yielded,
                 openedExisting, created>>
  /\ UNCHANGED filterVars

\* time passes
Tick ==
  /\ now < MaxNow
  /\ now' = now + 1
  /\ UNCHANGED <<names, data, remote, runs, pc, PERFORM_DOWNLOAD, file_up_to_date,
                 rename_path, response, file, startFs, oracle, renamed, requests,
                 yielded, openedExisting, created>>
  /\ UNCHANGED filterVars

\* the remote end publishes another version
RemoteUpdate ==
  /\ \E v \in Versions \ {remote} : remote' = v
  /\ UNCHANGED <<names, data, now, runs, pc, PERFORM_DOWNLOAD, file_up_to_date,
                 rename_path, response, file, startFs, oracle, renamed, requests,
                 yielded, openedExisting, created>>
  /\ UNCHANGED filterVars

Step(p) ==
  \/ StartRun(p)
  \/ ExistsCheck(p)
  \/ Checksum(p)
  \/ Archive(p)
  \/ AssertAbsent(p)
  \/ IfPerformDownload(p)
  \/ Get(p)
  \/ Open(p)
  \/ IterChunk(p)
  \/ DownloadComplete(p)
  \/ StreamError(p)

\* one invocation at a time: the single-process use the script is written for
Next == Step(1) \/ Tick \/ RemoteUpdate
Spec == Init /\ [][Next]_vars

\* two invocations against the same canonical path, each process invoking the
\* script once, their statements interleaved
ConcStartRun(p) == pc[p] = "idle" /\ StartRun(p)
ConcStep(p) ==
  \/ ConcStartRun(p)
  \/ ExistsCheck(p)
  \/ Checksum(p)
  \/ Archive(p)
  \/ AssertAbsent(p)
  \/ IfPerformDownload(p)
  \/ Get(p)
  \/ Open(p)
  \/ IterChunk(p)
  \/ DownloadComplete(p)
  \/ StreamError(p)
NextConc == (\E p \in Procs : ConcStep(p)) \/ Tick
SpecConc == Init /\ [][NextConc]_vars

(***************************************************************************)
(* Properties of the synchronizer.                                          *)
(***************************************************************************)
RECURSIVE Concat(_)
Concat(chunks) == IF chunks = <<>> THEN <<>> ELSE Head(chunks) \o Concat(Tail(chunks))

\* the run of p began with the canonical file on disk
StartedPresent(p) == path_to_captions \in DOMAIN startFs[p]
\* the archive files other than q are what they were when the run of p began
OtherArchivesKept(p, q) ==
  \A a \in ArchivePaths \ {q} :
    /\ a \in DOMAIN FsView <=> a \in DOMAIN startFs[p]
    /\ a \in DOMAIN FsView => FsView[a] = startFs[p][a]

\* C1 - a run that found the canonical file present and the oracle reporting a
\* mismatch ends having renamed to exactly one name, a timestamp-suffixed one
\* that is not the canonical path; that name holds the bytes the canonical file
\* had when the run began and every other archive is as it was; one download
\* request was issued, onto an absent canonical path, and when the transfer
\* completes the canonical file holds exactly the bytes of the response.
C1_Staleness ==
  (pc[1] \in Terminal /\ StartedPresent(1) /\ oracle[1] = "False") =>
    /\ pc[1] \in {"downloaded", "failed"}
    /\ renamed[1] = {rename_path[1]}
    /\ rename_path[1] \in ArchivePaths \ {path_to_captions}
    /\ rename_path[1] \in DOMAIN FsView
    /\ FsView[rename_path[1]] = startFs[1][path_to_captions]
    /\ OtherArchivesKept(1, rename_path[1])
    /\ requests[1] = 1
    /\ ~openedExisting[1]
    /\ pc[1] = "downloaded" =>
         /\ path_to_captions \in DOMAIN FsView
         /\ FsView[path_to_captions] = Concat(yielded[1])
         /\ FsView[path_to_captions] \in Versions
C1_Witness ==
  /\ pc[1] = "downloaded" /\ StartedPresent(1) /\ oracle[1] = "False"
  /\ FsView[path_to_captions] # startFs[1][path_to_captions]

\* C2 - once the oracle has reported the canonical file up to date, the run
\* renames nothing, issues no download request, writes nothing, leaves every
\* file as it was when the run began, and ends as FRESH.
C2_Freshness ==
  (StartedPresent(1) /\ oracle[1] = "True") =>
    /\ pc[1] \in {"line95", "fresh"}
    /\ renamed[1] = {}
    /\ requests[1] = 0
    /\ yielded[1] = <<>>
    /\ FsView = startFs[1]
C2_Witness == pc[1] = "fresh" /\ StartedPresent(1) /\ oracle[1] = "True"

\* C3 - a run in which the oracle reported a failure ends having archived the
\* canonical file and issued the download request.
C3_OracleFailureIsStale ==
  (pc[1] \in Terminal /\ StartedPresent(1) /\ oracle[1] = "failure") =>
    /\ renamed[1] # {}
    /\ requests[1] >= 1

\* C6 - a process that leaves the assertion of lines 91-93 while the canonical
\* path exists aborts, having issued no request and written no byte; it goes
\* on to line 95 from the archive step only when the canonical path is absent.
C6_AbortBeforeDownload ==
  [][\A p \in Procs :
       /\ (pc[p] = "line91" /\ pc'[p] # "line91" /\ path_to_captions \in DOMAIN names)
            => (pc'[p] = "aborted" /\ requests'[p] = 0 /\ yielded'[p] = <<>>
                /\ names' = names /\ data' = data)
       /\ (pc[p] = "line91" /\ pc'[p] = "line95") => path_to_captions \notin DOMAIN names
       /\ (pc[p] = "aborted" /\ pc'[p] # "line72") => pc'[p] = "aborted"]_vars
C6_Witness ==
  \E p \in Procs : pc[p] = "aborted" /\ path_to_captions \in DOMAIN names

\* C7 - once a download has completed, the canonical path exists whenever no
\* run is in progress.
C7_CanonicalBetweenRuns ==
  (created /\ pc[1] \in Terminal) => path_to_captions \in DOMAIN names

\* C8 - an archive file, once on disk, stays on disk with the same bytes.
C8_ArchivesImmutable ==
  [][\A a \in ArchivePaths :
       a \in DOMAIN names =>
         (a \in DOMAIN names' /\ data'[names'[a]] = data[names[a]])]_vars

\* C10 - no download opens a canonical path that already exists, and a
\* completed download leaves the canonical file holding exactly the non-empty
\* chunks of its own response, in order.
C10_NoAppendToLeftover ==
  /\ ~openedExisting[1]
  /\ pc[1] = "downloaded" =>
       /\ path_to_captions \in DOMAIN FsView
       /\ FsView[path_to_captions] =
            Concat(SelectSeq(yielded[1], LAMBDA chunk : chunk # <<>>))
\* a completed download in a run that began with the partial bytes of a failed one
C10_Witness ==
  /\ pc[1] = "downloaded"
  /\ StartedPresent(1)
  /\ startFs[1][path_to_captions] = <<1>>
  /\ \E i \in 1..Len(yielded[1]) : yielded[1][i] = <<>>

(***************************************************************************)
(* The partitioner, filter_dataset.py main().  A string is a sequence of   *)
(* characters; a row of the data frame is a record of its columns.         *)
(***************************************************************************)
\* rows of the caption file
MaxRows == 2

\* str.lower(), on the letters the inputs use
LowerChar(c) ==
  CASE c = "C" -> "c"
    [] c = "D" -> "d"
    [] c = "L" -> "l"
    [] OTHER -> c
lower(s) == [i \in 1..Len(s) |-> LowerChar(s[i])]

\* nltk's word_tokenize on text of letters, apostrophes inside a word, "/", "-"
\* and blanks: the words between the blanks
RECURSIVE split(_, _)
split(s, word) ==
  IF s = <<>> THEN (IF word = <<>> THEN <<>> ELSE <<word>>)
  ELSE IF Head(s) = " "
         THEN (IF word = <<>> THEN <<>> ELSE <<word>>) \o split(Tail(s), <<>>)
         ELSE split(Tail(s), Append(word, Head(s)))
word_tokenize(s) == split(s, <<>>)

\* line 98: desc.lower().replace("/", " / ").replace("-", " - ")
separate(desc) ==
  str_replace(str_replace(lower(desc), "/", <<" ", "/", " ">>), "-", <<" ", "-", " ">>)

\* line 116: token.replace("'", "")
strip_apostrophes(token) == str_replace(token, "'", <<>>)

Range(s) == {s[i] : i \in 1..Len(s)}

\* lines 130-137: the keyword set
build_keywords(dict, excluded) ==
  UNION {{lower(item) : item \in Range(dict[category])} :
           category \in DOMAIN dict \ excluded}

\* lines 152-154: check_keywords
check_keywords(kw, tokens) ==
  \E i \in 1..Len(tokens) : (tokens[i] \in kw) \/ ((tokens[i] \o <<"s">>) \in kw)

\* lines 160-161: the rows kept and the rows left out
IsIncluded(row) == row.include = TRUE
IsExcluded(row) == row.include = FALSE
filtered_df(frame) == SelectSeq(frame, IsIncluded)
excluded_df_same(frame) == SelectSeq(frame, IsIncluded)
excluded_df(frame) == SelectSeq(frame, IsExcluded)

\* df["id"].tolist()
ids(frame) == [i \in 1..Len(frame) |-> frame[i].id]

(* the inputs the model runs the partitioner on *)
chair == <<"c", "h", "a", "i", "r">>
lamp == <<"l", "a", "m", "p">>
Descriptions ==
  { chair \o <<"s">>,                          \* "chairs"
    <<"a", " ", "C">> \o Tail(chair),          \* "a Chair"
    <<"d", "'", "a", "r", "t">>,               \* "d'art"
    lamp \o <<"/">> \o chair,                  \* "lamp/chair"
    <<"a", " ">> \o lamp }                     \* "a lamp"
KeywordLists ==
  { <<chair>>, <<chair \o <<"s">>>>, <<<<"D", "a", "r", "t">>>>, <<lamp, chair>> }
Ids == <<"id1", "id2", "id3">>

FilterInit ==
  /\ SyncIdle
  /\ stage = "start"
  /\ \E n \in 1..MaxRows : \E d \in [1..n -> Descriptions] :
       captions = [i \in 1..n |-> <<Ids[i], d[i]>>]
  /\ \E furniture \in KeywordLists, banned \in {<<lamp>>, <<chair>>} :
       keywords_dict = [category \in {"furniture", "banned"} |->
                          IF category = "furniture" THEN furniture ELSE banned]
  /\ EXCLUDED_CATEGORIES \in {{}, {"banned"}}
  /\ df = <<>> /\ vocab = {} /\ keywords = {}
  /\ included_ids = <<>> /\ excluded_ids = <<>>

\* lines 86-90: pd.read_csv(..., names=["id", "desc"])
ReadCsv ==
  /\ stage = "start"
  /\ df' = [i \in 1..Len(captions) |-> [id |-> captions[i][1], desc |-> captions[i][2]]]
  /\ stage' = "read"
  /\ UNCHANGED <<EXCLUDED_CATEGORIES, keywords_dict, captions, vocab, keywords,
                 included_ids, excluded_ids>>
  /\ UNCHANGED syncVars

\* lines 97-99: the "desc tokens" column, lower-cased, "/" and "-" set apart
Lowercase ==
  /\ stage = "read"
  /\ df' = [i \in 1..Len(df) |->
              [id |-> df[i].id, desc |-> df[i].desc,
               desc_tokens |-> separate(df[i].desc)]]
  /\ stage' = "lowered"
  /\ UNCHANGED <<EXCLUDED_CATEGORIES, keywords_dict, captions, vocab, keywords,
                 included_ids, excluded_ids>>
  /\ UNCHANGED syncVars

\* line 105: df["desc tokens"].apply(word_tokenize)
Tokenise ==
  /\ stage = "lowered"
  /\ df' = [i \in 1..Len(df) |->
              [id |-> df[i].id, desc |-> df[i].desc,
               desc_tokens |-> word_tokenize(df[i].desc_tokens)]]
  /\ stage' = "tokenised"
  /\ UNCHANGED <<EXCLUDED_CATEGORIES, keywords_dict, captions, vocab, keywords,
                 included_ids, excluded_ids>>
  /\ UNCHANGED syncVars

\* lines 112-116: the vocabulary, of tokens with their apostrophes removed
Vocabulary ==
  /\ stage = "tokenised"
  /\ vocab' = UNION {{strip_apostrophes(token) : token \in Range(df[i].desc_tokens)} :
                       i \in 1..Len(df)}
  /\ stage' = "vocabulary"
  /\ UNCHANGED <<EXCLUDED_CATEGORIES, keywords_dict, captions, df, keywords,
                 included_ids, excluded_ids>>
  /\ UNCHANGED syncVars

\* lines 123-137: the keyword set
LoadKeywords ==
  /\ stage = "vocabulary"
  /\ keywords' = build_keywords(keywords_dict, EXCLUDED_CATEGORIES)
  /\ stage' = "keywords"
  /\ UNCHANGED <<EXCLUDED_CATEGORIES, keywords_dict, captions, df, vocab,
                 included_ids, excluded_ids>>
  /\ UNCHANGED syncVars

\* line 157: df["include"] = df["desc tokens"].apply(check_keywords)
Include ==
  /\ stage = "keywords"
  /\ df' = [i \in 1..Len(df) |->
              [id |-> df[i].id, desc |-> df[i].desc, desc_tokens |-> df[i].desc_tokens,
               include |-> check_keywords(keywords, df[i].desc_tokens)]]
  /\ stage' = "checked"
  /\ UNCHANGED <<EXCLUDED_CATEGORIES, keywords_dict, captions, vocab, keywords,
                 included_ids, excluded_ids>>
  /\ UNCHANGED syncVars

\* lines 160-179: the two frames, and their id lists written out
Save ==
  /\ stage = "checked"
  /\ included_ids' = ids(filtered_df(df))
  /\ excluded_ids' = ids(excluded_df(df))
  /\ stage' = "saved"
  /\ UNCHANGED <<EXCLUDED_CATEGORIES, keywords_dict, captions, df, vocab, keywords>>
  /\ UNCHANGED syncVars

FilterNext ==
  \/ ReadCsv
  \/ Lowercase
  \/ Tokenise
  \/ Vocabulary
  \/ LoadKeywords
  \/ Include
  \/ Save
SpecFilter == FilterInit /\ [][FilterNext]_vars

(***************************************************************************)
(* Properties of the partitioner.                                           *)
(***************************************************************************)
\* C4 - a row with a token that is a keyword followed by "s" is written to the
\* included list.
C4_PluralIncluded ==
  stage = "saved" =>
    \A i \in 1..Len(df) :
      (\E j \in 1..Len(df[i].desc_tokens), k \in keywords :
         df[i].desc_tokens[j] = k \o <<"s">>)
        => df[i].id \in Range(included_ids)

\* C5 - the two lists written out hold every identifier of the corpus, each in
\* exactly one of them and once.
C5_Partition ==
  stage = "saved" =>
    /\ Range(included_ids) \cup Range(excluded_ids) = {captions[i][1] : i \in 1..Len(captions)}
    /\ Range(included_ids) \cap Range(excluded_ids) = {}
    /\ Len(included_ids) + Len(excluded_ids) = Len(captions)
C5_Witness == stage = "saved" /\ included_ids # <<>> /\ excluded_ids # <<>>

\* C9 - the token sequence check_keywords was applied to is the word
\* tokenizer's output with the apostrophes removed from every token.
C9_MatcherSeesStripped ==
  stage \in {"checked", "saved"} =>
    \A i \in 1..Len(df) :
      df[i].desc_tokens =
        [j \in 1..Len(word_tokenize(separate(df[i].desc))) |->
           strip_apostrophes(word_tokenize(separate(df[i].desc))[j])]

====
